---- MODULE Spec2Model ----
(***************************************************************************)
(* rplay: playback of raw, headerless audio samples.                       *)
(*                                                                         *)
(* The model follows src/src/main.rs (config_sanity_check, main, run,      *)
(* write_data) and src/src/bit_io.rs (the byte codec, BitReader,           *)
(* BitWriter).                                                             *)
(*                                                                         *)
(* Data widths are scaled: a byte is a digit of BitsPerByte bits, so a     *)
(* sample of SIZE bytes has SIZE * BitsPerByte bits.  Byte order, two's    *)
(* complement, the unsigned midpoint and the sign bit of floats are kept.  *)
(* An f32 is a sign-magnitude fixed-point number of 4 bytes with three     *)
(* integer bits (so that values beyond 1.0 exist); an f64 is the same on   *)
(* 8 bytes.  F32One is the f32 value 1.0.  NaN and infinities are not      *)
(* modelled; a product beyond the largest f32 saturates.                   *)
(***************************************************************************)
EXTENDS Integers, Sequences, FiniteSets, TLC

\* ---------------------------------------------------------------- bounds
BitsPerByte == 2
MaxSamples == 2
MaxBufLen == 2
MaxChannels == 2

\* --------------------------------------------------------------- helpers
Radix == 2 ^ BitsPerByte

Min(a, b) == IF a <= b THEN a ELSE b

Abs(a) == IF a < 0 THEN -a ELSE a

\* integer division rounding toward zero (the model's rounding of f32 results)
TruncDiv(a, b) == IF a < 0 THEN -((-a) \div b) ELSE a \div b

Reverse(s) == [i \in 1..Len(s) |-> s[Len(s) + 1 - i]]

\* ---------------------------------------------------------------- formats
IntFormats == {"I8", "U8", "I16", "U16", "I32", "U32", "I64", "U64"}
FloatFormats == {"F32", "F64"}
Formats == IntFormats \cup FloatFormats

SignedFormats == {"I8", "I16", "I32", "I64"}
UnsignedFormats == {"U8", "U16", "U32", "U64"}

\* SizedNumber::SIZE, in bytes
SIZE(t) ==
    CASE t \in {"I8", "U8"} -> 1
      [] t \in {"I16", "U16"} -> 2
      [] t \in {"I32", "U32", "F32"} -> 4
      [] t \in {"I64", "U64", "F64"} -> 8

Bits(t) == SIZE(t) * BitsPerByte

\* the f32 value 1.0: an f32 has Bits("F32") - 4 fraction bits
F32One == 2 ^ (Bits("F32") - 4)
F32Max == 2 ^ (Bits("F32") - 1) - 1

\* ------------------------------------------------------------ byte codec
RECURSIVE UnsignedOfBe(_)
\* the unsigned number whose most significant byte comes first
UnsignedOfBe(b) ==
    IF Len(b) = 0 THEN 0
    ELSE UnsignedOfBe(SubSeq(b, 1, Len(b) - 1)) * Radix + b[Len(b)]

\* the typed value of a bit pattern u of type t
OfBits(t, u) ==
    LET half == 2 ^ (Bits(t) - 1) IN
    CASE t \in UnsignedFormats -> u
      [] t \in SignedFormats -> IF u >= half THEN u - 2 * half ELSE u
      [] t \in FloatFormats -> IF u >= half THEN -(u - half) ELSE u

\* the bit pattern of a typed value v of type t
ToBits(t, v) ==
    LET half == 2 ^ (Bits(t) - 1) IN
    CASE t \in UnsignedFormats -> v
      [] t \in SignedFormats -> IF v < 0 THEN v + 2 * half ELSE v
      [] t \in FloatFormats -> IF v < 0 THEN half + (-v) ELSE v

from_be_bytes(t, bytes) == OfBits(t, UnsignedOfBe(bytes))

from_le_bytes(t, bytes) == OfBits(t, UnsignedOfBe(Reverse(bytes)))

to_be_bytes(t, v) ==
    LET n == SIZE(t)
        u == ToBits(t, v)
    IN [i \in 1..n |-> (u \div (Radix ^ (n - i))) % Radix]

\* mutant: the little-endian encoding forgets to reverse
to_le_bytes_unreversed(t, v) == to_be_bytes(t, v)

to_le_bytes(t, v) == Reverse(to_be_bytes(t, v))

\* the map applied to the bytes of a successful read_helper in BitReader::read
BitReaderDecode(t, be, bytes) ==
    IF be THEN from_be_bytes(t, bytes) ELSE from_le_bytes(t, bytes)

\* the bytes BitWriter::write hands to write_all
BitWriterEncode(t, be, v) ==
    IF be THEN to_be_bytes(t, v) ELSE to_le_bytes(t, v)

\* the values of type t
Values(t) ==
    LET half == 2 ^ (Bits(t) - 1) IN
    CASE t \in UnsignedFormats -> 0..(2 * half - 1)
      [] t \in SignedFormats -> (-half)..(half - 1)
      [] t \in FloatFormats -> (-(half - 1))..(half - 1)

\* ------------------------------------------------------ f32 arithmetic
\* v / 2^(bits - 1) as an f32: exact when the f32 fraction is wide enough,
\* rounded otherwise
ScaleInt(v, bits) ==
    LET frac == Bits("F32") - 4 IN
    IF bits - 1 <= frac THEN v * 2 ^ (frac - (bits - 1))
    ELSE TruncDiv(v, 2 ^ (bits - 1 - frac))

\* pre_value.to_sample::<f32>()
to_sample_f32(t, v) ==
    CASE t \in SignedFormats -> ScaleInt(v, Bits(t))
      [] t \in UnsignedFormats -> ScaleInt(v - 2 ^ (Bits(t) - 1), Bits(t))
      [] t = "F32" -> v
      [] t = "F64" -> TruncDiv(v, 2 ^ (Bits("F64") - Bits("F32")))

\* f32::mul_amp: the product of two f32 values
mul_amp(a, b) ==
    LET p == TruncDiv(a * b, F32One) IN
    IF p > F32Max THEN F32Max ELSE IF p < -F32Max THEN -F32Max ELSE p

\* f32::clamp
clamp(x, lo, hi) == IF x < lo THEN lo ELSE IF x > hi THEN hi ELSE x

\* the f32 literal 0.33 of the default attenuation
Attenuation == (33 * F32One) \div 100

\* ------------------------------------------------------------ configuration
SampleSizes == {8, 16, 24, 32, 64}
Gains == {-F32One, F32One \div 2, F32One, 2 * F32One}

Opts ==
    [float : BOOLEAN, unsigned : BOOLEAN, sample_size : SampleSizes,
     be : BOOLEAN, pre_out : BOOLEAN, post_out : BOOLEAN,
     loud : BOOLEAN, dangerous : BOOLEAN, i_understand : BOOLEAN,
     gain : Gains, channels : 1..MaxChannels]

\* mutant: the (true, true, _) arm is missing, --unsigned is ignored for floats
ResolveFormatUnsignedFloat(float, unsigned, sample_size) ==
    CASE ~float /\ sample_size \in {8, 16, 32, 64} ->
            (CASE sample_size = 8 -> IF unsigned THEN "U8" ELSE "I8"
               [] sample_size = 16 -> IF unsigned THEN "U16" ELSE "I16"
               [] sample_size = 32 -> IF unsigned THEN "U32" ELSE "I32"
               [] sample_size = 64 -> IF unsigned THEN "U64" ELSE "I64")
      [] float /\ sample_size = 32 -> "F32"
      [] float /\ sample_size = 64 -> "F64"
      [] float /\ sample_size \notin {32, 64} -> "ErrFloatSize"
      [] ~float /\ sample_size \notin {8, 16, 32, 64} -> "ErrSampleSize"

\* the match on (opt.float, opt.unsigned, opt.sample_size)
ResolveFormat(float, unsigned, sample_size) ==
    CASE ~float /\ ~unsigned /\ sample_size = 8 -> "I8"
      [] ~float /\ unsigned /\ sample_size = 8 -> "U8"
      [] ~float /\ ~unsigned /\ sample_size = 16 -> "I16"
      [] ~float /\ unsigned /\ sample_size = 16 -> "U16"
      [] ~float /\ ~unsigned /\ sample_size = 32 -> "I32"
      [] ~float /\ unsigned /\ sample_size = 32 -> "U32"
      [] ~float /\ ~unsigned /\ sample_size = 64 -> "I64"
      [] ~float /\ unsigned /\ sample_size = 64 -> "U64"
      [] float /\ ~unsigned /\ sample_size = 32 -> "F32"
      [] float /\ ~unsigned /\ sample_size = 64 -> "F64"
      [] float /\ unsigned -> "ErrUnsignedFloat"
      [] float /\ ~unsigned /\ sample_size \notin {32, 64} -> "ErrFloatSize"
      [] ~float /\ sample_size \notin {8, 16, 32, 64} -> "ErrSampleSize"

\* mutant: the match on (pre_out, post_out) rejects nothing
TeeConflictNever(pre_out, post_out) == FALSE

\* the match on (opt.pre_out, opt.post_out)
TeeConflict(pre_out, post_out) == pre_out /\ post_out

\* mutant: --loud is not counted as a dangerous feature
MissingAcknowledgementOfDangerous(o) == o.dangerous /\ ~o.i_understand

\* the acknowledgement check before the gain is resolved
MissingAcknowledgement(o) == (o.dangerous \/ o.loud) /\ ~o.i_understand

\* mutant: the two flags are tested the wrong way round
ResolveGainFlagsSwapped(o) ==
    LET clamped == IF ~o.loud THEN clamp(o.gain, 0, F32One) ELSE o.gain
    IN IF ~o.dangerous THEN mul_amp(clamped, Attenuation) ELSE clamped

\* opt.gain after the clamp and the attenuation
ResolveGain(o) ==
    LET clamped == IF ~o.dangerous THEN clamp(o.gain, 0, F32One) ELSE o.gain
    IN IF ~o.loud THEN mul_amp(clamped, Attenuation) ELSE clamped

\* config_sanity_check: "err" is Err(msg) returned to main, "exit" is the
\* process::exit(1) of the acknowledgement check, "ok" carries ValidConfigOut
\* and the gain left in opt.  opens: the input file, when one is named, opens.
config_sanity_check(o, opens) ==
    LET fmt == ResolveFormat(o.float, o.unsigned, o.sample_size)
        none == [sample_format |-> "none", sample_sink |-> FALSE, gain |-> o.gain]
    IN IF fmt \notin Formats THEN [kind |-> "err", msg |-> fmt] @@ none
       ELSE IF TeeConflict(o.pre_out, o.post_out)
            THEN [kind |-> "err", msg |-> "ErrPreAndPost"] @@ none
       ELSE IF ~opens THEN [kind |-> "err", msg |-> "ErrOpen"] @@ none
       ELSE IF MissingAcknowledgement(o)
            THEN [kind |-> "exit", msg |-> "LoudSoundWarning"] @@ none
       ELSE [kind |-> "ok", msg |-> "", sample_format |-> fmt,
             sample_sink |-> (o.pre_out \/ o.post_out),
             gain |-> ResolveGain(o)]

\* ---------------------------------------------------------------- the source
\* the contents of the byte source: MaxSamples whole samples of width w and
\* half a sample more (nothing more when w = 1)
SrcLen(w) == MaxSamples * w + w \div 2

Sources(w) ==
    { [i \in 1..SrcLen(w) |-> i % Radix],
      [i \in 1..SrcLen(w) |-> Radix - 1] }

\* --------------------------------------------------------------- write_data
\* what the environment does to one pull: nothing, an I/O error of the source
\* at the read of slot `at` after `partial` bytes, or a failure of the tee sink
\* at the write of slot `at` after `partial` bytes.  How far a failed
\* read_exact or write_all got is unspecified; the two extremes are drawn.
Faults(len, w) ==
    {[kind |-> "none", at |-> 0, partial |-> 0]}
    \cup [kind : {"read", "tee"}, at : 1..len, partial : {0, w - 1}]

\* mutant: read in place of read_exact; a short read leaves the zeroes the
\* buffer was made with
read_helper_short(src, pos, n, fault) ==
    LET left == Len(src) - pos IN
    IF fault.kind = "read"
    THEN [ok |-> FALSE, buf |-> << >>, pos |-> pos + Min(fault.partial, left)]
    ELSE IF left < n
    THEN [ok |-> TRUE,
          buf |-> SubSeq(src, pos + 1, Len(src)) \o [i \in 1..(n - left) |-> 0],
          pos |-> Len(src)]
    ELSE [ok |-> TRUE, buf |-> SubSeq(src, pos + 1, pos + n), pos |-> pos + n]

\* mutant: the cursor is left one byte short of the bytes returned
read_helper_rereads(src, pos, n, fault) ==
    LET left == Len(src) - pos IN
    IF fault.kind = "read"
    THEN [ok |-> FALSE, buf |-> << >>, pos |-> pos + Min(fault.partial, left)]
    ELSE IF left < n
    THEN [ok |-> FALSE, buf |-> << >>, pos |-> Len(src)]
    ELSE [ok |-> TRUE, buf |-> SubSeq(src, pos + 1, pos + n), pos |-> pos + n - 1]

\* BitReader::read_helper::<n> on the source: read_exact of n bytes.  At end
\* of input read_exact has consumed what was left; after an I/O error it has
\* consumed the bytes that arrived before the error.
read_helper(src, pos, n, fault) ==
    LET left == Len(src) - pos IN
    IF fault.kind = "read"
    THEN [ok |-> FALSE, buf |-> << >>, pos |-> pos + Min(fault.partial, left)]
    ELSE IF left < n
    THEN [ok |-> FALSE, buf |-> << >>, pos |-> Len(src)]
    ELSE [ok |-> TRUE, buf |-> SubSeq(src, pos + 1, pos + n), pos |-> pos + n]

\* BitReader::read::<I>
BitReaderRead(I, be, src, pos, fault) ==
    LET r == read_helper(src, pos, SIZE(I), fault) IN
    IF r.ok THEN [ok |-> TRUE, value |-> BitReaderDecode(I, be, r.buf), pos |-> r.pos]
    ELSE [ok |-> FALSE, value |-> 0, pos |-> r.pos]

\* BitWriter::write::<T>: the sink after write_all; a failed write_all has
\* written the bytes the sink took before the failure
BitWriterWrite(T, be, sink, v, fault) ==
    LET bytes == BitWriterEncode(T, be, v) IN
    IF fault.kind = "tee"
    THEN [ok |-> FALSE,
          sink |-> sink \o SubSeq(bytes, 1, Min(fault.partial, Len(bytes) - 1))]
    ELSE [ok |-> TRUE, sink |-> sink \o bytes]

NoFault == [kind |-> "none", at |-> 0, partial |-> 0]

\* the fault that hits slot k, if any
FaultAt(fault, k) == IF fault.at = k THEN fault ELSE NoFault

\* the body of the inner loop of write_data for slot k
\* c: the arguments of write_data and the closures it was given
\* st: status, source cursor, tee sink, the output buffer filled so far
WriteSample(c, k, st) ==
    LET rd == BitReaderRead(c.I, c.be, c.src, st.pos, FaultAt(c.fault, k))
        pre_value == rd.value
        post_value == mul_amp(to_sample_f32(c.I, pre_value), c.gain)
        read == [st EXCEPT !.pos = rd.pos, !.reads = @ + 1]
        got == [read EXCEPT !.samples = Append(@, pre_value)]
        wr == IF c.pre_out
              THEN BitWriterWrite(c.I, c.be, st.sink, pre_value, FaultAt(c.fault, k))
              ELSE BitWriterWrite("F32", c.be, st.sink, post_value, FaultAt(c.fault, k))
    IN IF ~rd.ok THEN [read EXCEPT !.status = "exit"]
       ELSE IF c.out_io /\ c.pre_out /\ c.post_out
            THEN [got EXCEPT !.status = "panic_both"]
       ELSE IF c.out_io /\ (c.pre_out \/ c.post_out)
            THEN IF ~wr.ok THEN [got EXCEPT !.status = "panic_tee", !.sink = wr.sink]
                 ELSE [got EXCEPT !.sink = wr.sink, !.data = Append(@, post_value)]
       ELSE [got EXCEPT !.data = Append(@, post_value)]

RECURSIVE WriteFrame(_, _, _, _)
\* for sample in frame.iter_mut(): slots k..last of one frame
WriteFrame(c, k, last, st) ==
    IF k > last \/ st.status # "ok" THEN st
    ELSE WriteFrame(c, k + 1, last, WriteSample(c, k, st))

RECURSIVE WriteFramesExact(_, _, _, _)
\* mutant: chunks_exact_mut, which leaves a short last frame out
WriteFramesExact(c, f, len, st) ==
    IF f * c.channels > len \/ st.status # "ok" THEN st
    ELSE WriteFramesExact(c, f + 1, len,
            WriteFrame(c, (f - 1) * c.channels + 1, f * c.channels, st))

RECURSIVE WriteFrames(_, _, _, _)
\* for frame in output.chunks_mut(channels): frame f covers the slots
\* (f - 1) * channels + 1 .. min(f * channels, len); the last may be short
WriteFrames(c, f, len, st) ==
    IF (f - 1) * c.channels >= len \/ st.status # "ok" THEN st
    ELSE WriteFrames(c, f + 1, len,
            WriteFrame(c, (f - 1) * c.channels + 1, Min(f * c.channels, len), st))

\* write_data on a buffer of len slots
write_data(c, len, st) == WriteFrames(c, 1, len, st)

\* -------------------------------------------------------------------- state
VARIABLES
    opt,          \* the parsed options; config_sanity_check rewrites opt.gain
    cli_gain,     \* the gain as given on the command line
    pc,           \* where the process is
    exit_code,    \* the exit status, -1 while the process runs
    failure,      \* what ended the process: "none", "config", "device", "read", "tee", "both"
    message,      \* the configuration error reported, "" when none
    sample_format,\* ValidConfigOut.sample_format
    sample_sink,  \* ValidConfigOut.sample_sink is Some
    stream,       \* the output stream has been built and played
    I,            \* the type run::<I> was dispatched on
    gain,         \* the gain the callback captured
    src,          \* the bytes the source holds
    pos,          \* the read cursor of the source
    reads,        \* calls of read_exact so far
    samples,      \* the values next_sample has returned, in order
    sink,         \* the bytes written to the tee sink
    delivered,    \* the samples handed back to the output subsystem, in order
    pull,         \* the arguments of the last call of write_data
    buffer,       \* the output buffer of the last call, as far as it was filled
    codec         \* the state of the codec exercise (CodecSpec)

vars == <<opt, cli_gain, pc, exit_code, failure, message, sample_format, sample_sink,
          stream, I, gain, src, pos, reads, samples, sink, delivered, pull,
          buffer, codec>>

NoPull == [len |-> 0, base |-> 0, pre_out |-> FALSE, post_out |-> FALSE,
           out_io |-> FALSE, gain |-> 0, I |-> "none"]

CodecIdle == [pc |-> "idle", t |-> "none", be |-> FALSE, x |-> 0,
              bytes |-> << >>, ok |-> TRUE, y |-> 0]

\* the defaults of the command line
DefaultOpt ==
    [float |-> FALSE, unsigned |-> FALSE, sample_size |-> 32, be |-> FALSE,
     pre_out |-> FALSE, post_out |-> FALSE, loud |-> FALSE, dangerous |-> FALSE,
     i_understand |-> FALSE, gain |-> F32One, channels |-> 2]

\* the command lines that leave the options `keys` at their defaults
Leaving(keys) == {o \in Opts : \A k \in keys : o[k] = DefaultOpt[k]}

\* the command lines explored: every combination of the format, tee and
\* safety options; of the format, safety and gain options; and of the format,
\* byte order, tee and channel options
CommandLines ==
    Leaving({"be", "gain", "channels"})
    \cup Leaving({"be", "pre_out", "post_out", "channels"})
    \cup Leaving({"loud", "dangerous", "i_understand", "gain"})

\* the process after Opt::parse()
Parsed ==
    /\ opt \in CommandLines
    /\ cli_gain = opt.gain
    /\ pc = "start"
    /\ exit_code = -1
    /\ failure = "none"
    /\ message = ""
    /\ sample_format = "none"
    /\ sample_sink = FALSE
    /\ stream = FALSE
    /\ I = "none"
    /\ gain = 0
    /\ src = << >>
    /\ pos = 0
    /\ reads = 0
    /\ samples = << >>
    /\ sink = << >>
    /\ delivered = << >>
    /\ pull = NoPull
    /\ buffer = << >>

Init == Parsed /\ codec = CodecIdle

\* main up to the dispatch: config_sanity_check, and process::exit(1) on Err
Main ==
    /\ pc = "start"
    /\ \E opens \in BOOLEAN :
        LET r == config_sanity_check(opt, opens) IN
        /\ opt' = [opt EXCEPT !.gain = r.gain]
        /\ sample_format' = r.sample_format
        /\ sample_sink' = r.sample_sink
        /\ message' = r.msg
        /\ IF r.kind = "ok"
           THEN /\ pc' = "dispatch"
                /\ UNCHANGED <<exit_code, failure>>
           ELSE /\ pc' = "exited"
                /\ exit_code' = 1
                /\ failure' = "config"
    /\ UNCHANGED <<cli_gain, stream, I, gain, src, pos, reads, samples, sink,
                   delivered, pull, buffer, codec>>

\* the match on iformat in main
Dispatch(iformat) ==
    CASE iformat = "I8" -> "I8"
      [] iformat = "U8" -> "U8"
      [] iformat = "I16" -> "I16"
      [] iformat = "U16" -> "U16"
      [] iformat = "I32" -> "I32"
      [] iformat = "U32" -> "U32"
      [] iformat = "I64" -> "I64"
      [] iformat = "U64" -> "U64"
      [] iformat = "F32" -> "F32"
      [] iformat = "F64" -> "F64"

\* run::<I>: the reader and the writer are made, the stream is built and
\* played, and main parks.  A device that is missing or refuses the
\* configuration makes main panic before any callback runs.
Run ==
    /\ pc = "dispatch"
    /\ \E device_ok \in BOOLEAN :
        IF device_ok
        THEN /\ I' = Dispatch(sample_format)
             /\ gain' = opt.gain
             /\ src' \in Sources(SIZE(Dispatch(sample_format)))
             /\ stream' = TRUE
             /\ pc' = "parked"
             /\ UNCHANGED <<exit_code, failure>>
        ELSE /\ pc' = "exited"
             /\ exit_code' = 101
             /\ failure' = "device"
             /\ UNCHANGED <<I, gain, src, stream>>
    /\ UNCHANGED <<opt, cli_gain, message, sample_format, sample_sink, pos, reads,
                   samples, sink, delivered, pull, buffer, codec>>

\* what a panic on the callback thread leaves: the process aborted (a build
\* with panic = "abort", or an unwind across the backend's foreign frame), or
\* only the callback thread gone and main parked for ever
PanicOutcomes == {"aborted", "callback_dead"}

\* one pull of the output subsystem: the data callback calls write_data on a
\* buffer of len slots
Pull ==
    /\ pc = "parked"
    /\ \E len \in 1..MaxBufLen : \E fault \in Faults(len, SIZE(I)) :
        LET c == [I |-> I, be |-> opt.be, gain |-> gain, channels |-> opt.channels,
                  pre_out |-> opt.pre_out, post_out |-> opt.post_out,
                  out_io |-> sample_sink, src |-> src, fault |-> fault]
            st == [status |-> "ok", pos |-> pos, reads |-> reads,
                   samples |-> samples, sink |-> sink, data |-> << >>]
            r == write_data(c, len, st)
        IN /\ pull' = [len |-> len, base |-> Len(samples), pre_out |-> c.pre_out,
                       post_out |-> c.post_out, out_io |-> c.out_io,
                       gain |-> c.gain, I |-> c.I]
           /\ pos' = r.pos
           /\ reads' = r.reads
           /\ samples' = r.samples
           /\ sink' = r.sink
           /\ buffer' = r.data
           /\ CASE r.status = "ok" ->
                     /\ delivered' = delivered \o r.data
                     /\ UNCHANGED <<pc, exit_code, failure>>
                [] r.status = "exit" ->
                     /\ pc' = "exited"
                     /\ exit_code' = 1
                     /\ failure' = "read"
                     /\ UNCHANGED delivered
                [] r.status \in {"panic_tee", "panic_both"} ->
                     /\ pc' \in PanicOutcomes
                     /\ exit_code' = IF pc' = "aborted" THEN 134 ELSE -1
                     /\ failure' = IF r.status = "panic_tee" THEN "tee" ELSE "both"
                     /\ UNCHANGED delivered
    /\ UNCHANGED <<opt, cli_gain, message, sample_format, sample_sink, stream,
                   I, gain, src, codec>>

Next == Main \/ Run \/ Pull

Spec == Init /\ [][Next]_vars

\* ------------------------------------------------------- the codec alone
\* the values the codec is exercised on: all of a type of at most four bytes;
\* of a wider type the extremes, the values around zero and every value with
\* a single non-zero byte
TestValues(t) ==
    IF SIZE(t) <= 4 THEN Values(t)
    ELSE LET half == 2 ^ (Bits(t) - 1) IN
         {v \in {-half, 1 - half, -2, -1, 0, 1, 2, half - 2, half - 1,
                 2 * half - 1} : v \in Values(t)}
         \cup {OfBits(t, d * Radix ^ k) : d \in 1..(Radix - 1), k \in 0..(SIZE(t) - 1)}

CodecInit ==
    /\ Parsed
    /\ opt = DefaultOpt
    /\ \E t \in Formats : \E be \in BOOLEAN : \E x \in TestValues(t) :
          codec = [pc |-> "start", t |-> t, be |-> be, x |-> x,
                   bytes |-> << >>, ok |-> TRUE, y |-> 0]

unchanged_process ==
    UNCHANGED <<opt, cli_gain, pc, exit_code, failure, message, sample_format,
                sample_sink, stream, I, gain, src, pos, reads, samples, sink,
                delivered, pull, buffer>>

\* BitWriter::write of x on an empty sink
CodecWrite ==
    /\ codec.pc = "start"
    /\ LET w == BitWriterWrite(codec.t, codec.be, << >>, codec.x, NoFault) IN
       codec' = [codec EXCEPT !.pc = "written", !.bytes = w.sink, !.ok = w.ok]
    /\ unchanged_process

\* BitReader::read, with the same byte order, of what was written
CodecRead ==
    /\ codec.pc = "written"
    /\ LET r == BitReaderRead(codec.t, codec.be, codec.bytes, 0, NoFault) IN
       codec' = [codec EXCEPT !.pc = "read", !.ok = r.ok, !.y = r.value]
    /\ unchanged_process

CodecNext == CodecWrite \/ CodecRead

CodecSpec == CodecInit /\ [][CodecNext]_vars

\* ------------------------------------------------------------------ claims
\* the sample of the source at index k (from 1), decoded as the session does
SourceSample(k) ==
    LET chunk == SubSeq(src, (k - 1) * SIZE(I) + 1, k * SIZE(I)) IN
    IF opt.be THEN from_be_bytes(I, chunk) ELSE from_le_bytes(I, chunk)

\* the bytes the tee sink receives for one sample
TeeWidth ==
    IF ~sample_sink THEN 0 ELSE IF opt.pre_out THEN SIZE(I) ELSE SIZE("F32")

\* a read of the source has failed
ReadFailed == reads # Len(samples)

\* the process is gone
Terminated == pc \in {"exited", "aborted"}

\* C1: with hard limiting enabled (neither --dangerous nor --loud), every
\* sample write_data stores in the output buffer has magnitude at most 1.0,
\* for every format and every gain.
C1_HardLimited ==
    (~opt.dangerous /\ ~opt.loud) =>
        \A k \in 1..Len(buffer) : Abs(buffer[k]) <= F32One

\* C2: a read that finds less than one sample left, or fails, ends the process
\* inside the callback: it is the only failed read, no value is made of the
\* partial bytes, nothing is stored or echoed for that sample, and the buffer
\* of that pull is not handed back.
C2_FailedReadIsFatal ==
    /\ I # "none" => Len(samples) * SIZE(I) <= Len(src)
    /\ ReadFailed =>
        /\ pc = "exited" /\ exit_code = 1 /\ failure = "read"
        /\ reads = Len(samples) + 1
        /\ \A k \in 1..Len(samples) : samples[k] = SourceSample(k)
        /\ Len(buffer) = Len(samples) - pull.base
        /\ Len(sink) = Len(samples) * TeeWidth
        /\ Len(delivered) = pull.base

C2_Witness ==
    /\ failure = "read"
    /\ Len(src) % SIZE(I) # 0
    /\ pos = Len(src)
    /\ Len(buffer) > 0
    /\ sample_sink

\* C3: the format is resolved as the table says, no other input yields a
\* format, and run is dispatched on the resolved format.
C3_ResolutionTable ==
    LET f == opt.float
        u == opt.unsigned
        w == opt.sample_size
        later == {"ErrPreAndPost", "ErrOpen", "LoudSoundWarning"}
        is(t) == \/ sample_format = t /\ message = ""
                 \/ sample_format = "none" /\ message \in later
    IN pc # "start" =>
        /\ (~f /\ ~u /\ w = 8) => is("I8")
        /\ (~f /\ ~u /\ w = 16) => is("I16")
        /\ (~f /\ ~u /\ w = 32) => is("I32")
        /\ (~f /\ ~u /\ w = 64) => is("I64")
        /\ (~f /\ u /\ w = 8) => is("U8")
        /\ (~f /\ u /\ w = 16) => is("U16")
        /\ (~f /\ u /\ w = 32) => is("U32")
        /\ (~f /\ u /\ w = 64) => is("U64")
        /\ (f /\ ~u /\ w = 32) => is("F32")
        /\ (f /\ ~u /\ w = 64) => is("F64")
        /\ (f /\ u) => sample_format = "none" /\ message = "ErrUnsignedFloat"
        /\ (f /\ ~u /\ w \notin {32, 64}) =>
              sample_format = "none" /\ message = "ErrFloatSize"
        /\ (~f /\ w \notin {8, 16, 32, 64}) =>
              sample_format = "none" /\ message = "ErrSampleSize"
        /\ I # "none" => I = sample_format /\ message = ""
        /\ stream => I = sample_format /\ I \in Formats

C3_Witness ==
    /\ stream /\ I = "F64" /\ opt.sample_size = 64 /\ Len(delivered) > 0

\* C4: --pre with --post is rejected before streaming, so write_data never
\* sees both and never takes its panic branch; a tee sink exists exactly when
\* one of the two is enabled.
C4_TeeExclusive ==
    /\ (opt.pre_out /\ opt.post_out) => ~stream /\ pc \in {"start", "exited"}
    /\ pull # NoPull => ~(pull.pre_out /\ pull.post_out)
    /\ failure # "both"
    /\ pc \notin {"start", "exited"} =>
          (sample_sink <=> (opt.pre_out \/ opt.post_out))
    /\ pull # NoPull => (pull.out_io <=> (pull.pre_out \/ pull.post_out))

C4_Witness ==
    /\ opt.pre_out /\ opt.post_out
    /\ pc = "exited" /\ message = "ErrPreAndPost"

\* C5: after a configuration error (an unsupported format combination, or
\* --dangerous or --loud without --i-understand) the process has exited with
\* a non-zero status, no stream was built, the callback never ran and nothing
\* was read or written.
C5_ConfigErrorsExitEarly ==
    LET f == opt.float
        u == opt.unsigned
        w == opt.sample_size
        bad_format == \/ f /\ u
                      \/ f /\ w \notin {32, 64}
                      \/ ~f /\ w \notin {8, 16, 32, 64}
        unacknowledged == (opt.dangerous \/ opt.loud) /\ ~opt.i_understand
    IN /\ (pc # "start" /\ (bad_format \/ unacknowledged)) => failure = "config"
       /\ failure = "config" =>
            /\ pc = "exited" /\ exit_code > 0
            /\ ~stream /\ I = "none" /\ pull = NoPull
            /\ reads = 0 /\ pos = 0 /\ samples = << >>
            /\ sink = << >> /\ delivered = << >> /\ buffer = << >>

C5_Witness ==
    /\ failure = "config" /\ message = "LoudSoundWarning"
    /\ opt.loud /\ ~opt.i_understand

\* C6: the gain is resolved once, in config_sanity_check, as
\* clamp(gain, 0, 1) * attenuation, without the clamp exactly under --dangerous
\* and without the attenuation exactly under --loud; every sample of every
\* pull is multiplied by that value.
C6_GainResolvedOnce ==
    LET clamped == IF cli_gain < 0 THEN 0
                   ELSE IF cli_gain > F32One THEN F32One ELSE cli_gain
        base == IF opt.dangerous THEN cli_gain ELSE clamped
        resolved == IF opt.loud THEN base ELSE mul_amp(base, Attenuation)
    IN /\ pc = "start" => opt.gain = cli_gain
       /\ pc = "dispatch" => opt.gain = resolved /\ ~stream
       /\ stream => opt.gain = resolved /\ gain = resolved
       /\ pull # NoPull => pull.gain = resolved
       /\ \A k \in 1..Len(delivered) :
             delivered[k] = mul_amp(to_sample_f32(I, samples[k]), resolved)
       /\ \A k \in 1..Len(buffer) :
             buffer[k] = mul_amp(to_sample_f32(I, samples[pull.base + k]), resolved)

C6_Witness ==
    /\ Len(delivered) > 1
    /\ opt.dangerous /\ ~opt.loud /\ cli_gain > F32One
    /\ gain = mul_amp(cli_gain, Attenuation)
    /\ \E k \in 1..Len(delivered) : delivered[k] # 0

\* C7: a pull that completes has taken one sample of the source for each slot
\* of the buffer, also when the length is no multiple of the channel count,
\* and stored the transformed k-th of them in slot k; what has been delivered
\* is the transformed source, in order, nothing skipped or repeated.
C7_OneSamplePerSlot ==
    /\ (pc = "parked" /\ pull # NoPull) =>
          /\ Len(samples) = pull.base + pull.len
          /\ Len(buffer) = pull.len
          /\ Len(delivered) = Len(samples)
          /\ \A k \in 1..pull.len : buffer[k] = delivered[pull.base + k]
    /\ Len(delivered) <= Len(samples)
    /\ \A k \in 1..Len(delivered) :
          delivered[k] = mul_amp(to_sample_f32(I, SourceSample(k)), gain)

C7_Witness ==
    /\ pc = "parked"
    /\ pull.base > 0
    /\ pull.len % opt.channels # 0
    /\ \E j, k \in 1..Len(delivered) : delivered[j] # delivered[k]

\* C8: a failed write to the tee sink ends the process as a failed read does,
\* and nothing is read, stored or delivered afterwards.
C8_TeeFailureIsFatal ==
    failure = "tee" =>
        /\ Terminated
        /\ Len(delivered) = pull.base

\* C9: for every format and byte order, what BitReader::read decodes from the
\* bytes BitWriter::write encoded is the value written, and the encoding is as
\* long as the format is wide.
C9_RoundTrip ==
    LET width_in_bits ==
            CASE codec.t \in {"I8", "U8"} -> 8
              [] codec.t \in {"I16", "U16"} -> 16
              [] codec.t \in {"I32", "U32", "F32"} -> 32
              [] codec.t \in {"I64", "U64", "F64"} -> 64
    IN /\ codec.pc \in {"written", "read"} =>
            codec.ok /\ Len(codec.bytes) * 8 = width_in_bits
       /\ codec.pc = "read" => codec.y = codec.x

C9_Witness ==
    /\ codec.pc = "read" /\ ~codec.be /\ codec.t = "I64" /\ codec.x < -1
    /\ codec.bytes # Reverse(codec.bytes)

\* C10: the cursor only moves forward; each successful read takes exactly one
\* sample width, so after n samples n * width bytes are consumed and the i-th
\* sample is decoded from the i-th chunk of the source with the session byte
\* order.
C10_CursorAdvances ==
    /\ [](/\ ~ReadFailed /\ I # "none" => pos = Len(samples) * SIZE(I)
          /\ I # "none" => Len(samples) * SIZE(I) <= pos /\ pos <= Len(src)
          /\ \A k \in 1..Len(samples) : samples[k] = SourceSample(k))
    /\ [][pos' >= pos /\ Len(samples') >= Len(samples)]_vars

C10_Witness ==
    /\ Len(samples) >= 2 /\ opt.be /\ SIZE(I) > 1
    /\ samples[1] # samples[2]

====
